---- MODULE Spec2Model ----
(***************************************************************************)
(* A model of src/admin-bro.js: the AdminBro class, its module-level      *)
(* `defaults` object, the static adapter registry, the constructor,        *)
(* registerAdapter, renderLogin and findResource.                          *)
(*                                                                         *)
(* JavaScript objects are modelled as functions from keys to values.  A    *)
(* user options object is a function whose domain holds only the keys the  *)
(* user supplied.  An object that the code shares by reference is a        *)
(* variable of the model (defaults); a field that holds a reference to it  *)
(* holds its name (DefaultsRef).                                           *)
(***************************************************************************)
EXTENDS Integers, Sequences, FiniteSets, TLC

VARIABLES
  registeredAdapters,  \* AdminBro.registeredAdapters, the static array
  defaults,            \* the module-level `defaults` object
  instances,           \* the AdminBro instances constructed so far
  nCalls,              \* the constructor calls made so far
  regLog,              \* history: the pairs of the registerAdapter calls that returned, in call order
  lastCall             \* the last call made: [op, arg, threw, value], value being what it returned or threw

vars == <<registeredAdapters, defaults, instances, nCalls, regLog, lastCall>>

----------------------------------------------------------------------------
(* Bounds *)

MaxAdapters == 2
MaxConstructions == 2
MaxDbs == 2
MaxRes == 1

----------------------------------------------------------------------------
(* Values *)

\* A missing argument (null or undefined): the only falsy value given.
NULL == "undefined"

\* The classes handed to registerAdapter.  The Plain* classes have no
\* isAdapterFor; the others say which handles they are adapters for.
MongooseAdapter == [Database |-> "MongooseDatabase", Resource |-> "MongooseResource"]
GenericAdapter == [Database |-> "GenericDatabase", Resource |-> "GenericResource"]

DbHandles == {"mongoConn", "sqlConn"}
ResHandles == {"User", "Comment"}

HasIsAdapterFor(class) ==
  class \in {"MongooseDatabase", "GenericDatabase", "MongooseResource", "GenericResource"}

IsAdapterFor(class, handle) ==
  CASE class = "MongooseDatabase" -> handle \in {"mongoConn"}
    [] class = "GenericDatabase" -> handle \in {"mongoConn", "sqlConn"}
    [] class = "MongooseResource" -> handle \in {"User"}
    [] class = "GenericResource" -> handle \in {"User", "Comment"}
    [] OTHER -> FALSE

\* What a database handle yields: one resource per collection or table.
DatabaseResources(db) ==
  CASE db = "mongoConn" -> <<"users", "posts">>
    [] db = "sqlConn" -> <<"users">>
    [] OTHER -> <<>>

\* BaseResource#id of the resource that wraps a handle.
ResourceId(handle) ==
  CASE handle = "User" -> "users"
    [] handle = "Comment" -> "comments"
    [] OTHER -> handle

ResourceIds == {"users", "posts", "missing"}

DefaultDashboard == "DefaultDashboard"

\* The `defaults` object as the module creates it.
BuiltinDefaults ==
  [rootPath |-> "/admin",
   logoutPath |-> "/admin/logout",
   loginPath |-> "/admin/login",
   databases |-> <<>>,
   resources |-> <<>>,
   branding |-> [logo |-> "software-brothers-logo-compact.svg",
                 companyName |-> "Company Name",
                 softwareBrothers |-> TRUE],
   dashboard |-> DefaultDashboard,
   assets |-> [styles |-> <<"/style.css">>,
               scripts |-> <<"/scripts.js">>]]

\* The reference the constructor stores in this.options: _.merge returns
\* its destination, the `defaults` object itself.
DefaultsRef == "defaults"

----------------------------------------------------------------------------
(* _.merge *)

ObjectKeys == {"branding", "assets"}
ArrayKeys == {"databases", "resources", "styles", "scripts"}

EmptyObject == [k \in {} |-> NULL]

Max(a, b) == IF a >= b THEN a ELSE b

\* An array source merged into an array destination: index by index, the
\* destination keeping what lies beyond the source's length.  The elements
\* given here (handles, paths) are not plain objects: each is assigned.
mergeArray(object, source) ==
  [i \in 1..Max(Len(object), Len(source)) |->
     IF i <= Len(source) THEN source[i] ELSE object[i]]

\* _.merge(object, source): the value the destination holds afterwards.
RECURSIVE merge(_, _)
merge(object, source) ==
  [k \in DOMAIN object \cup DOMAIN source |->
     IF k \notin DOMAIN source THEN object[k]
     ELSE IF k \in ObjectKeys
       THEN merge(IF k \in DOMAIN object THEN object[k] ELSE EmptyObject, source[k])
     ELSE IF k \in ArrayKeys
       THEN mergeArray(IF k \in DOMAIN object THEN object[k] ELSE <<>>, source[k])
     ELSE source[k]]

----------------------------------------------------------------------------
(* ResourcesFactory *)

RECURSIVE Flatten(_)
Flatten(lists) ==
  IF lists = <<>> THEN <<>> ELSE Head(lists) \o Flatten(Tail(lists))

\* The least of the 1-based indices `hits`, 0 when there is none: where a
\* scan from the front stops.
FirstIndex(hits) ==
  IF hits = {} THEN 0 ELSE CHOOSE i \in hits : \A j \in hits : i <= j

\* The first registered pair whose Database is an adapter for `db`.
databaseAdapter(adapters, db) ==
  FirstIndex({i \in 1..Len(adapters) : IsAdapterFor(adapters[i].Database, db)})

\* The first registered pair whose Resource is an adapter for `resource`.
resourceAdapter(adapters, resource) ==
  FirstIndex({i \in 1..Len(adapters) : IsAdapterFor(adapters[i].Resource, resource)})

\* The resources of one database handle, wrapped by the pair that matched it.
convertDatabase(adapters, db) ==
  LET a == adapters[databaseAdapter(adapters, db)]
      ids == DatabaseResources(db)
  IN [t \in 1..Len(ids) |-> [id |-> ids[t], handle |-> db, adapter |-> a]]

\* One explicitly listed resource, wrapped by the pair that matched it.
convertResource(adapters, resource) ==
  [id |-> ResourceId(resource), handle |-> resource,
   adapter |-> adapters[resourceAdapter(adapters, resource)]]

\* buildResources({ databases, resources }): the resources of the databases
\* in database order, then the listed resources in listing order; an error
\* when a handle has no adapter.
buildResources(adapters, databases, resources) ==
  IF \/ \E i \in 1..Len(databases) : databaseAdapter(adapters, databases[i]) = 0
     \/ \E i \in 1..Len(resources) : resourceAdapter(adapters, resources[i]) = 0
  THEN [threw |-> TRUE, error |-> "NoAdapterError"]
  ELSE [threw |-> FALSE,
        value |-> Flatten([i \in 1..Len(databases) |-> convertDatabase(adapters, databases[i])])
                  \o [i \in 1..Len(resources) |-> convertResource(adapters, resources[i])]]

----------------------------------------------------------------------------
(* Inputs *)

SeqsUpTo(S, n) == UNION {[1..k -> S] : k \in 0..n}

\* Either nothing (the key is not supplied) or one of the values of S.
Choices(S) == {<<>>} \cup {<<v>> : v \in S}

OptionKeys == {"branding", "dashboard", "assets", "databases", "resources"}
CosmeticKeys == {"branding", "dashboard", "assets"}
DataKeys == {"databases", "resources"}

OptionChoices ==
  [branding : Choices({[companyName |-> "Acme"],
                       [logo |-> "acme.svg", softwareBrothers |-> FALSE]}),
   dashboard : Choices({"CustomDashboard"}),
   assets : Choices({[styles |-> <<>>],
                     [styles |-> <<"/a.css", "/b.css">>, scripts |-> <<"/app.js">>]}),
   databases : Choices(SeqsUpTo(DbHandles, MaxDbs)),
   resources : Choices(SeqsUpTo(ResHandles, MaxRes))]

\* The options object that supplies exactly the chosen keys.
MkOptions(c) ==
  [k \in {key \in OptionKeys : c[key] # <<>>} |-> c[k][1]]

\* The options given: those that configure the looks, and those that name
\* the data.
UserOptions ==
  {MkOptions(c) : c \in {x \in OptionChoices :
                           \/ \A k \in DataKeys : x[k] = <<>>
                           \/ \A k \in CosmeticKeys : x[k] = <<>>}}

\* The adapter pairs given: the two adapters, and each with one of its
\* classes missing or without isAdapterFor.
AdapterArgs ==
  UNION {{a, [a EXCEPT !.Database = NULL], [a EXCEPT !.Resource = NULL],
          [a EXCEPT !.Database = "PlainDatabase"], [a EXCEPT !.Resource = "PlainResource"]}
         : a \in {MongooseAdapter, GenericAdapter}}

LoginArgs == [action : {"/admin/login"}, errorMessage : {"Wrong email"}]

----------------------------------------------------------------------------
(* The program *)

Returned(v) == <<v>>
ReturnedUndefined == <<>>

Call(op, arg, threw, value) ==
  [op |-> op, arg |-> arg, threw |-> threw, value |-> value]

\* The options an instance sees through this.options.
OptionsOf(inst) == defaults

Init ==
  /\ registeredAdapters = <<>>
  /\ defaults = BuiltinDefaults
  /\ instances = <<>>
  /\ nCalls = 0
  /\ regLog = <<>>
  /\ lastCall = Call("none", EmptyObject, FALSE, ReturnedUndefined)

\* A constructor that catches the factory's error and keeps an instance with
\* the resources built so far (none).
constructorCatching(options) ==
  LET merged == merge(defaults, options)
      built == buildResources(registeredAdapters, merged.databases, merged.resources)
  IN /\ nCalls < MaxConstructions
     /\ nCalls' = nCalls + 1
     /\ defaults' = merged
     /\ instances' = Append(instances,
           [options |-> DefaultsRef,
            resources |-> IF built.threw THEN <<>> ELSE built.value,
            DashboardPage |-> IF "dashboard" \in DOMAIN options
                                THEN options.dashboard
                                ELSE merged.dashboard])
     /\ lastCall' = Call("new", options, FALSE, Returned([instance |-> Len(instances) + 1]))
     /\ UNCHANGED <<registeredAdapters, regLog>>

\* new AdminBro(options)
constructor(options) ==
  LET merged == merge(defaults, options)
      built == buildResources(registeredAdapters, merged.databases, merged.resources)
  IN /\ nCalls < MaxConstructions
     /\ nCalls' = nCalls + 1
     /\ defaults' = merged
     /\ IF built.threw
          THEN /\ instances' = instances
               /\ lastCall' = Call("new", options, TRUE, Returned([error |-> built.error]))
          ELSE /\ instances' = Append(instances,
                     [options |-> DefaultsRef,
                      resources |-> built.value,
                      DashboardPage |-> IF "dashboard" \in DOMAIN options
                                          THEN options.dashboard
                                          ELSE merged.dashboard])
               /\ lastCall' = Call("new", options, FALSE, Returned([instance |-> Len(instances) + 1]))
     /\ UNCHANGED <<registeredAdapters, regLog>>

BothMissingMessage == "Adapter has to have both Database and Resource"
SubclassMessage == "Adapter elements has to be subclassess of AdminBro.BaseResource nad AdminBro.BaseDatabase"

\* A registerAdapter that pushes the pair first and validates it afterwards.
registerAdapterPushFirst(pair) ==
  /\ Len(registeredAdapters) < MaxAdapters
  /\ registeredAdapters' = Append(registeredAdapters, pair)
  /\ IF pair.Database = NULL \/ pair.Resource = NULL
       THEN /\ lastCall' = Call("registerAdapter", pair, TRUE, Returned([error |-> BothMissingMessage]))
            /\ UNCHANGED regLog
     ELSE IF HasIsAdapterFor(pair.Database) /\ HasIsAdapterFor(pair.Resource)
       THEN /\ lastCall' = Call("registerAdapter", pair, FALSE, ReturnedUndefined)
            /\ regLog' = Append(regLog, pair)
     ELSE /\ lastCall' = Call("registerAdapter", pair, TRUE, Returned([error |-> SubclassMessage]))
          /\ UNCHANGED regLog
  /\ UNCHANGED <<defaults, instances, nCalls>>

\* A registerAdapter that puts the pair at the front (unshift for push).
registerAdapterUnshift(pair) ==
  IF pair.Database = NULL \/ pair.Resource = NULL
    THEN /\ lastCall' = Call("registerAdapter", pair, TRUE, Returned([error |-> BothMissingMessage]))
         /\ UNCHANGED <<registeredAdapters, defaults, instances, nCalls, regLog>>
  ELSE IF HasIsAdapterFor(pair.Database) /\ HasIsAdapterFor(pair.Resource)
    THEN /\ Len(registeredAdapters) < MaxAdapters
         /\ registeredAdapters' = <<pair>> \o registeredAdapters
         /\ regLog' = Append(regLog, pair)
         /\ lastCall' = Call("registerAdapter", pair, FALSE, ReturnedUndefined)
         /\ UNCHANGED <<defaults, instances, nCalls>>
  ELSE /\ lastCall' = Call("registerAdapter", pair, TRUE, Returned([error |-> SubclassMessage]))
       /\ UNCHANGED <<registeredAdapters, defaults, instances, nCalls, regLog>>

\* A registerAdapter that looks for isAdapterFor on the Database alone.
registerAdapterDatabaseOnly(pair) ==
  IF pair.Database = NULL \/ pair.Resource = NULL
    THEN /\ lastCall' = Call("registerAdapter", pair, TRUE, Returned([error |-> BothMissingMessage]))
         /\ UNCHANGED <<registeredAdapters, defaults, instances, nCalls, regLog>>
  ELSE IF HasIsAdapterFor(pair.Database)
    THEN /\ Len(registeredAdapters) < MaxAdapters
         /\ registeredAdapters' = Append(registeredAdapters, pair)
         /\ regLog' = Append(regLog, pair)
         /\ lastCall' = Call("registerAdapter", pair, FALSE, ReturnedUndefined)
         /\ UNCHANGED <<defaults, instances, nCalls>>
  ELSE /\ lastCall' = Call("registerAdapter", pair, TRUE, Returned([error |-> SubclassMessage]))
       /\ UNCHANGED <<registeredAdapters, defaults, instances, nCalls, regLog>>

\* AdminBro.registerAdapter({ Database, Resource })
registerAdapter(pair) ==
  IF pair.Database = NULL \/ pair.Resource = NULL
    THEN /\ lastCall' = Call("registerAdapter", pair, TRUE,
                             Returned([error |-> BothMissingMessage]))
         /\ UNCHANGED <<registeredAdapters, defaults, instances, nCalls, regLog>>
  ELSE IF HasIsAdapterFor(pair.Database) /\ HasIsAdapterFor(pair.Resource)
    THEN /\ Len(registeredAdapters) < MaxAdapters
         /\ registeredAdapters' = Append(registeredAdapters, pair)
         /\ regLog' = Append(regLog, pair)
         /\ lastCall' = Call("registerAdapter", pair, FALSE, ReturnedUndefined)
         /\ UNCHANGED <<defaults, instances, nCalls>>
  ELSE /\ lastCall' = Call("registerAdapter", pair, TRUE,
                           Returned([error |-> SubclassMessage]))
       /\ UNCHANGED <<registeredAdapters, defaults, instances, nCalls, regLog>>

\* AdminBro.renderLogin({ action, errorMessage })
renderLogin(args) ==
  /\ lastCall' = Call("renderLogin", args, FALSE,
                      Returned([template |-> "pages/login", action |-> args.action,
                                errorMessage |-> args.errorMessage]))
  /\ UNCHANGED <<registeredAdapters, defaults, instances, nCalls, regLog>>

\* A find that returns the last match.
findLast(resources, resourceId) ==
  LET hits == {i \in 1..Len(resources) : resources[i].id = resourceId}
  IN IF hits = {} THEN ReturnedUndefined
     ELSE Returned(resources[CHOOSE i \in hits : \A j \in hits : j <= i])

\* Array.prototype.find with the callback m => m.id() === resourceId
find(resources, resourceId) ==
  LET i == FirstIndex({k \in 1..Len(resources) : resources[k].id = resourceId})
  IN IF i = 0 THEN ReturnedUndefined ELSE Returned(resources[i])

\* instances[inst].findResource(resourceId)
findResource(inst, resourceId) ==
  /\ lastCall' = Call("findResource", [inst |-> inst, resourceId |-> resourceId], FALSE,
                      find(instances[inst].resources, resourceId))
  /\ UNCHANGED <<registeredAdapters, defaults, instances, nCalls, regLog>>

Next ==
  \/ \E options \in UserOptions : constructor(options)
  \/ \E pair \in AdapterArgs : registerAdapter(pair)
  \/ \E args \in LoginArgs : renderLogin(args)
  \/ \E inst \in 1..Len(instances), resourceId \in ResourceIds : findResource(inst, resourceId)

Spec == Init /\ [][Next]_vars

----------------------------------------------------------------------------
(* Properties *)

IsNew == lastCall.op = "new" /\ ~lastCall.threw

\* The instance the last constructor call produced.
Newest == instances[Len(instances)]

Given(options, key) == IF key \in DOMAIN options THEN options[key] ELSE <<>>

InvalidPair(pair) ==
  \/ pair.Database = NULL
  \/ pair.Resource = NULL
  \/ ~HasIsAdapterFor(pair.Database)
  \/ ~HasIsAdapterFor(pair.Resource)

\* C1: a registerAdapter call whose Database or Resource is missing or has
\* no isAdapterFor throws, and leaves registeredAdapters exactly as it was.
C1_FailedRegistrationKeepsRegistry ==
  [][(lastCall'.op = "registerAdapter" /\ InvalidPair(lastCall'.arg))
       => (lastCall'.threw /\ registeredAdapters' = registeredAdapters)]_vars

\* A registration of a Resource without isAdapterFor has failed after an
\* earlier registration succeeded.
C1_Witness ==
  /\ lastCall.op = "registerAdapter"
  /\ lastCall.threw
  /\ lastCall.arg.Resource = "PlainResource"
  /\ Len(registeredAdapters) >= 1

\* C2: the defaults object is the same before and after every construction,
\* and the options of a new instance are the built-in defaults merged with
\* its own user options only.
C2_NoLeakBetweenInstances ==
  /\ defaults = BuiltinDefaults
  /\ IsNew => OptionsOf(Newest) = merge(BuiltinDefaults, lastCall.arg)

\* C3: an array the user supplies (assets.styles, assets.scripts, databases,
\* resources) is the effective array, whatever its length.
C3_ArraysReplaced ==
  IsNew =>
    /\ \A k \in {"databases", "resources"} \cap DOMAIN lastCall.arg :
         OptionsOf(Newest)[k] = lastCall.arg[k]
    /\ "assets" \in DOMAIN lastCall.arg =>
         \A k \in DOMAIN lastCall.arg.assets :
           OptionsOf(Newest).assets[k] = lastCall.arg.assets[k]

\* C4: every option field the user did not supply holds its built-in
\* default: with only branding.companyName supplied, logo and
\* softwareBrothers are the built-in ones.
C4_UnsuppliedFieldsAreBuiltin ==
  IsNew =>
    /\ \A k \in DOMAIN BuiltinDefaults \ DOMAIN lastCall.arg :
         OptionsOf(Newest)[k] = BuiltinDefaults[k]
    /\ \A k \in ObjectKeys \cap DOMAIN lastCall.arg :
         \A f \in DOMAIN BuiltinDefaults[k] \ DOMAIN lastCall.arg[k] :
           OptionsOf(Newest)[k][f] = BuiltinDefaults[k][f]

\* The handles a resource list of the given databases and resources wraps:
\* each database once per resource it yields, then the listed resources.
ExpectedHandles(databases, resources) ==
  Flatten([i \in 1..Len(databases) |->
             [t \in 1..Len(DatabaseResources(databases[i])) |-> databases[i]]])
  \o resources

\* C5: the resource list of an instance is built from exactly the databases
\* and resources given to it: the databases' resources first, in database
\* order, then the listed resources in listing order, none dropped or merged.
C5_ResourcesFromOwnInputs ==
  IsNew =>
    [k \in 1..Len(Newest.resources) |-> Newest.resources[k].handle]
      = ExpectedHandles(Given(lastCall.arg, "databases"), Given(lastCall.arg, "resources"))

\* C6: findResource returns the first resource in list order whose id is the
\* one asked for, undefined when there is none, never throws, and leaves the
\* resource lists as they were.
C6_FindResourceFirstMatch ==
  [][lastCall'.op = "findResource" =>
       LET rs == instances[lastCall'.arg.inst].resources
           hits == {i \in 1..Len(rs) : rs[i].id = lastCall'.arg.resourceId}
       IN /\ ~lastCall'.threw
          /\ hits = {} => lastCall'.value = <<>>
          /\ hits # {} => \E i \in hits : /\ \A j \in hits : i <= j
                                          /\ lastCall'.value = <<rs[i]>>
          /\ instances' = instances]_vars

\* findResource has answered with the first of two different resources that
\* share the id asked for.
C6_Witness ==
  /\ lastCall.op = "findResource"
  /\ LET rs == instances[lastCall.arg.inst].resources
     IN \E i, j \in 1..Len(rs) :
          /\ i < j
          /\ rs[i].id = lastCall.arg.resourceId
          /\ rs[j].id = lastCall.arg.resourceId
          /\ rs[i] # rs[j]
          /\ lastCall.value = <<rs[i]>>

\* C7: every database handle of an instance is wrapped by the first pair, in
\* registration order, whose Database is an adapter for it.
C7_FirstRegisteredWins ==
  \A n \in 1..Len(instances) :
    \A k \in 1..Len(instances[n].resources) :
      LET r == instances[n].resources[k]
      IN r.handle \in DbHandles =>
           \E i \in 1..Len(regLog) :
             /\ r.adapter = regLog[i]
             /\ IsAdapterFor(regLog[i].Database, r.handle)
             /\ \A j \in 1..(i - 1) : ~IsAdapterFor(regLog[j].Database, r.handle)

\* Two different pairs that both match a handle were registered, and the
\* instance constructed afterwards wraps the handle with the first.
C7_Witness ==
  /\ IsNew
  /\ Len(regLog) >= 2
  /\ regLog[1] # regLog[2]
  /\ \E k \in 1..Len(Newest.resources) :
       LET r == Newest.resources[k]
       IN /\ r.handle \in DbHandles
          /\ IsAdapterFor(regLog[1].Database, r.handle)
          /\ IsAdapterFor(regLog[2].Database, r.handle)
          /\ r.adapter = regLog[1]

\* What an instance holds: the options it sees, its resources, its dashboard.
InstanceFields(n) ==
  [options |-> OptionsOf(instances[n]),
   resources |-> instances[n].resources,
   DashboardPage |-> instances[n].DashboardPage]

\* C8: no operation changes the options, resources or DashboardPage of an
\* instance that is already constructed.
C8_InstancesReadOnly ==
  [][\A n \in 1..Len(instances) : InstanceFields(n)' = InstanceFields(n)]_vars

\* Some handle of the options has no adapter among the registered pairs.
UnmatchedGiven(options, adapters) ==
  \/ \E i \in 1..Len(Given(options, "databases")) :
       \A a \in 1..Len(adapters) : ~IsAdapterFor(adapters[a].Database, options.databases[i])
  \/ \E i \in 1..Len(Given(options, "resources")) :
       \A a \in 1..Len(adapters) : ~IsAdapterFor(adapters[a].Resource, options.resources[i])

\* C9: a construction given a handle that no registered pair matches throws
\* the factory's error as it is, produces no instance and leaves the
\* registry as it was.
C9_UnmatchedHandleFailsConstruction ==
  [][(lastCall'.op = "new" /\ UnmatchedGiven(lastCall'.arg, registeredAdapters))
       => /\ lastCall'.threw
          /\ lastCall'.value = <<[error |-> "NoAdapterError"]>>
          /\ instances' = instances
          /\ registeredAdapters' = registeredAdapters]_vars

\* A construction with an unmatched handle has failed while pairs were
\* registered and an instance existed.
C9_Witness ==
  /\ lastCall.op = "new"
  /\ lastCall.threw
  /\ UnmatchedGiven(lastCall.arg, registeredAdapters)
  /\ Len(registeredAdapters) >= 1
  /\ Len(instances) >= 1

\* C10: the registry is the sequence of the pairs whose registration
\* returned, in call order, and each entry has both members with
\* isAdapterFor.
C10_RegistryAppendOnly ==
  /\ registeredAdapters = regLog
  /\ \A i \in 1..Len(registeredAdapters) : ~InvalidPair(registeredAdapters[i])

\* Two different pairs are registered, an instance was constructed, and a
\* later registration has failed.
C10_Witness ==
  /\ Len(registeredAdapters) >= 2
  /\ registeredAdapters[1] # registeredAdapters[2]
  /\ Len(instances) >= 1
  /\ lastCall.op = "registerAdapter"
  /\ lastCall.threw

====
